---------------------------- MODULE Spec2Model ----------------------------
(***************************************************************************)
(* A model of the Shakespeare HDF5 vector store examples and of the Gala   *)
(* citation loader:                                                        *)
(*   src/examples/shakespeare_hdf5_vectors.py  (build / list-works / query)*)
(*   src/examples/build_shakespeare_hdf5.py    (single-document variant)   *)
(*   src/python/gala_loader.py                 (citations to Wikidata)     *)
(*                                                                         *)
(* The specifications of the module:                                       *)
(*   SpecChunk     the two token-window chunkers, as pure functions        *)
(*   SpecQuery     the two top-k queries over a store                      *)
(*   SpecBuild     build_if_missing / write_hdf5 with a concurrent reader  *)
(*   SpecPrograms  one run of each entry point that writes a store         *)
(*   SpecDownload  the two downloads with their candidate URLs             *)
(*   SpecGala      process_citations                                       *)
(***************************************************************************)
EXTENDS Integers, Sequences, FiniteSets, TLC

VARIABLES
    prog,         \* the entry point that is run
    \* ---- chunkers ----
    cfn,          \* which chunker is called
    ids,          \* tokenizer.encode(text): the token sequence
    max_tokens,   \* argument max_tokens
    overlap,      \* argument overlap (named stride in chunk_text_by_tokens)
    cpc,          \* "call" | "returned" | "raised"
    chunks,       \* the returned list
    \* ---- queries ----
    qfn,          \* which query function is called
    h5_exists,    \* os.path.exists(h5_path)
    sim,          \* per row: the dot product of the stored embedding and qv
    works_idx,    \* the store's works/index table
    work_filter,  \* argument work_filter (<<>>: None or "")
    top_k,        \* argument top_k (k in topk_cosine_from_hdf5)
    block,        \* rows per block of the scan
    qpc,          \* position in the query
    qerr,         \* the exception raised, "" when none
    rows,         \* the candidate rows
    scores,       \* np.empty(len(rows)), filled block by block
    nscored,      \* per candidate: how many times its score was computed
    qi,           \* the scan's loop variable i
    idx,          \* local indices chosen by argpartition, then sorted
    results,      \* the returned list
    \* ---- build ----
    pc,               \* position of the build command
    rebuild,          \* argument rebuild
    works,            \* the works of the corpus, in order
    work_id,          \* loop variable of the chunking loop
    all_chunks,       \* chunk texts, one per row
    all_work_ids,     \* work id, one per row
    works_index,      \* per work: work_id, title, start_row, end_row
    row_cursor,       \* the next free row
    embeddings,       \* one vector per chunk text
    meta_created_at,  \* meta["created_at"]
    file,             \* what is at out_path
    file_at_entry,    \* what was at out_path when the build command started
    now,              \* the clock
    builds,           \* build commands run so far
    obs,              \* what the reader saw when it last opened the path
    \* ---- build_shakespeare_hdf5.main ----
    mpc,              \* position of main
    columns,          \* the per-chunk lists and arrays main passes to persist_to_hdf5
    \* ---- downloads ----
    dfn,              \* which download function is called
    responses,        \* per candidate URL: what requests.get does for it
    durl,             \* the loop's position in the candidate list (0-based)
    tried,            \* the positions requested so far, in order
    last_err,         \* last_err
    dpc,              \* "loop" | "returned" | "raised"
    dresult,          \* the returned text and the URL it came from
    \* ---- gala_loader.process_citations ----
    citations,        \* the rows of the CSV file
    gi,               \* the loop's position in the rows (0-based)
    gpc,              \* position inside the loop body
    gs,               \* position in the steps for a new item (0-based)
    report            \* per row entered: the Wikidata calls made for it

cvars == <<cfn, ids, max_tokens, overlap, cpc, chunks>>

qvars == <<qfn, h5_exists, sim, works_idx, work_filter, top_k, block, qpc, qerr,
           rows, scores, nscored, qi, idx, results>>

bvars == <<pc, rebuild, works, work_id, all_chunks, all_work_ids, works_index,
           row_cursor, embeddings, meta_created_at, file, file_at_entry, now, builds,
           obs>>

mvars == <<mpc, columns>>

dvars == <<dfn, responses, durl, tried, last_err, dpc, dresult>>

gvars == <<citations, gi, gpc, gs, report>>

vars == <<prog, cvars, qvars, bvars, mvars, dvars, gvars>>

Min(a, b) == IF a < b THEN a ELSE b

(***************************************************************************)
(* Bounds of the chunker model.                                            *)
(***************************************************************************)
MaxLen == 5
MaxTokens == 3

(***************************************************************************)
(* Tokens.  "UNK" stands for a special token (BERT's [UNK], which encode   *)
(* produces for out-of-vocabulary input even with add_special_tokens=False)*)
(* and "w" for an ordinary word piece.                                     *)
(***************************************************************************)
Tokens == {"UNK", "w"}

TokenSeqs == UNION {[1..n -> Tokens] : n \in 0..MaxLen}

\* Python slice ids[a:b] for 0 <= a (0-based, half-open, clipped at the end).
Slice(s, a, b) == SubSeq(s, a + 1, Min(b, Len(s)))

\* tokenizer.decode(piece_ids, clean_up_tokenization_spaces=True): special
\* tokens are kept in the text.
DecodeKeepSpecial(window) == window

\* tokenizer.decode(window, skip_special_tokens=True).strip(): special tokens
\* are left out, so the text is empty when the window holds nothing else.
DecodeSkipSpecial(window) == SelectSeq(window, LAMBDA t : t # "UNK")

(***************************************************************************)
(* chunk_text_by_tokens (build_shakespeare_hdf5.py).  The result is the    *)
(* list of (chunk_text, start_token_idx, end_token_idx), or                *)
(* "AssertionError".                                                       *)
(***************************************************************************)
RECURSIVE TextLoop(_, _, _, _, _)
TextLoop(tok, maxt, step, start, acc) ==
    LET n == Len(tok) IN
    IF start >= n THEN acc               \* range(0, n, step) exhausted
    ELSE LET end == Min(start + maxt, n)
             piece_text == DecodeKeepSpecial(Slice(tok, start, end))
             acc2 == Append(acc, [text |-> piece_text, start |-> start, end |-> end])
         IN  IF end >= n THEN acc2       \* break
             ELSE TextLoop(tok, maxt, step, start + step, acc2)

ChunkTextAssert(maxt, stride) == maxt > 0 /\ stride >= 0 /\ stride < maxt

ChunkTextByTokens(tok, maxt, stride) ==
    IF ~ChunkTextAssert(maxt, stride) THEN "AssertionError"
    ELSE IF Len(tok) = 0 THEN <<>>
    ELSE TextLoop(tok, maxt, maxt - stride, 0, <<>>)

(***************************************************************************)
(* chunk_by_tokens (shakespeare_hdf5_vectors.py).  The function returns    *)
(* the decoded strings only; start and end record the window each string   *)
(* was decoded from.                                                       *)
(***************************************************************************)
\* Variant: no fallback when the overlap is not below max_tokens.
ByStepNoFallback(maxt, ovl) == maxt - ovl

\* line 195
ByStep(maxt, ovl) == IF maxt > ovl THEN maxt - ovl ELSE maxt

\* line 196: range(0, len(ids), step) raises ValueError for step 0; for a
\* negative step it is empty.
RangeRaises(step) == step = 0

ByKeepChunk(chunk_text) == chunk_text # <<>>

RECURSIVE ByLoop(_, _, _, _, _)
ByLoop(tok, maxt, step, start, acc) ==
    LET n == Len(tok) IN
    IF start >= n \/ step < 0 THEN acc   \* range(0, len(ids), step) exhausted
    ELSE LET window == Slice(tok, start, start + maxt)
             chunk_text == DecodeSkipSpecial(window)
         IN  IF window = <<>> THEN acc   \* break
             ELSE ByLoop(tok, maxt, step, start + step,
                         IF ByKeepChunk(chunk_text)
                         THEN Append(acc, [text |-> chunk_text, start |-> start,
                                           end |-> Min(start + maxt, n)])
                         ELSE acc)

ChunkByTokens(tok, maxt, ovl) ==
    IF Len(tok) = 0 THEN <<>>
    ELSE ByLoop(tok, maxt, ByStep(maxt, ovl), 0, <<>>)

(***************************************************************************)
(* Bounds of the query model.  The source fixes block = 131072 rows; the   *)
(* scan is modelled for blocks of 1..MaxBlock rows, so that a candidate    *)
(* range of a few rows spans several blocks.  Scores (dot products) are    *)
(* the integers 0..MaxScore.                                               *)
(***************************************************************************)
MaxRows == 3
MaxScore == 2
MaxBlock == 2

NoneVal == <<>>

\* 0-based indexing into a sequence, as in the source.
At(s, i) == s[i + 1]

\* The permutations of the local indices 0..n-1, as 0-indexed arrays.
IndexPerms(n) ==
    {p \in [1..n -> 0..(n - 1)] : \A a, b \in 1..n : a # b => p[a] # p[b]}

(***************************************************************************)
(* Titles are character sequences; str.lower() maps the upper-case letters *)
(* of the model's alphabet to lower case and leaves the rest.              *)
(***************************************************************************)
LowerChar(c) ==
    CASE c = "H" -> "h"
      [] c = "M" -> "m"
      [] c = "A" -> "a"
      [] c = "C" -> "c"
      [] OTHER -> c

Lower(str) == [j \in 1..Len(str) |-> LowerChar(str[j])]

\* Python's  q in t  on strings.
IsSubstring(q, t) ==
    \E off \in 0..(Len(t) - Len(q)) : SubSeq(t, off + 1, off + Len(q)) = q

TitleHam == <<"H", "a", "m">>
TitleMac == <<"M", "a", "c">>

WorkFilters == {<<>>, <<"m">>, <<"A", "C">>, <<"x">>}

(***************************************************************************)
(* find_work_rows: the (start_row, end_row) of the first entry whose       *)
(* lower-cased title contains the lower-cased substring, else None.        *)
(***************************************************************************)
RECURSIVE FindFrom(_, _, _)
FindFrom(widx, q, j) ==
    IF j > Len(widx) THEN NoneVal
    ELSE IF IsSubstring(q, Lower(widx[j].title))
         THEN <<widx[j].start_row, widx[j].end_row>>
         ELSE FindFrom(widx, q, j + 1)

\* Variant: the filter is compared as typed, not lower-cased.
FindWorkRowsAsTyped(widx, title_substring) == FindFrom(widx, title_substring, 1)

FindWorkRows(widx, title_substring) == FindFrom(widx, Lower(title_substring), 1)

\* np.arange(lo, hi)
Arange(lo, hi) == [j \in 1..(IF hi > lo THEN hi - lo ELSE 0) |-> lo + j - 1]

\* query_hdf5, lines 415-422: the bounds (lo, hi) of the candidate rows; None
\* when the filter matches no work ("if not bounds": a 2-tuple is never falsy).
BoundsMissing(bounds) == bounds = NoneVal

CandidateBounds(widx, filter, n) ==
    IF filter # <<>> THEN FindWorkRows(widx, filter) ELSE <<0, n>>

(***************************************************************************)
(* numpy.  argpartition and argsort (default kind, not stable) leave the   *)
(* order of equal keys unspecified: every outcome they allow is modelled.  *)
(***************************************************************************)
KthNorm(n, kth) == IF kth < 0 THEN kth + n ELSE kth

\* Variant: the bounds of kth are checked for empty arrays too.
ArgPartitionRaisesOnEmpty(n, kth) ==
    KthNorm(n, kth) < 0 \/ KthNorm(n, kth) >= n

\* "kth(=..) out of bounds": only checked for arrays that are not empty.
ArgPartitionRaises(n, kth) ==
    n # 0 /\ (KthNorm(n, kth) < 0 \/ KthNorm(n, kth) >= n)

\* np.argpartition(a, kth): the index arrays p where a[p[kth]] is in its
\* sorted position, nothing before it is larger and nothing after it smaller.
ArgPartition(a, kth) ==
    LET n == Len(a)
        k == KthNorm(n, kth)
    IN  IF n = 0 THEN {<<>>}
        ELSE {p \in IndexPerms(n) :
                 /\ \A j \in 0..(k - 1) : At(a, At(p, j)) <= At(a, At(p, k))
                 /\ \A j \in (k + 1)..(n - 1) : At(a, At(p, j)) >= At(a, At(p, k))}

\* np.argsort(a): the index arrays that put a in non-decreasing order.
ArgSort(a) ==
    {p \in IndexPerms(Len(a)) :
        \A j \in 0..(Len(a) - 2) : At(a, At(p, j)) <= At(a, At(p, j + 1))}

Negate(a) == [j \in 1..Len(a) |-> 0 - a[j]]

\* a[idx] for an index array idx
Take(a, ix) == [j \in 1..Len(ix) |-> At(a, At(ix, j - 1))]

\* p[:k] and p[-k:] for k >= 0 (p[-0:] is the whole array)
FirstK(p, k) == SubSeq(p, 1, Min(k, Len(p)))
LastK(p, k) == IF k = 0 \/ k >= Len(p) THEN p ELSE SubSeq(p, Len(p) - k + 1, Len(p))

\* query_hdf5, line 434
TopK(k, n) == Min(k, n)

\* Variant: the position among the candidates is reported as the row.
ResultRowLocal(rws, i_local) == i_local

\* query_hdf5, line 442: row = int(rows[i_local])
ResultRow(rws, i_local) == At(rws, i_local)

(***************************************************************************)
(* The store being queried: any file of the layout, also one with no rows  *)
(* or with an empty range in its index.  The work_id column follows the    *)
(* index.                                                                  *)
(***************************************************************************)
WorkIdOfRow(widx, row) ==
    IF \E j \in 1..Len(widx) : widx[j].start_row <= row /\ row < widx[j].end_row
    THEN LET j == CHOOSE j \in 1..Len(widx) :
                      widx[j].start_row <= row /\ row < widx[j].end_row
         IN  widx[j].work_id
    ELSE 0 - 1

IndexWithCut(c, n) ==
    << [work_id |-> 0, title |-> TitleHam, start_row |-> 0, end_row |-> c],
       [work_id |-> 1, title |-> TitleMac, start_row |-> c, end_row |-> n] >>

ScoreVectors == UNION {[1..n -> 0..MaxScore] : n \in 0..MaxRows}

InitQueryVars ==
    /\ qfn \in {"query_hdf5", "topk_cosine_from_hdf5"}
    /\ h5_exists \in BOOLEAN
    /\ sim \in (IF h5_exists THEN ScoreVectors ELSE {<<>>})
    /\ top_k \in 1..(MaxRows + 1)
    /\ IF qfn = "query_hdf5"
       THEN /\ works_idx \in (IF h5_exists
                              THEN {IndexWithCut(c, Len(sim)) : c \in 0..Len(sim)}
                              ELSE {<<>>})
            /\ work_filter \in WorkFilters
            /\ block \in 1..MaxBlock
       ELSE /\ works_idx = <<>>
            /\ work_filter = <<>>
            /\ block = 1
    /\ qpc = "call"
    /\ qerr = ""
    /\ rows = <<>>
    /\ scores = <<>>
    /\ nscored = <<>>
    /\ qi = 0
    /\ idx = <<>>
    /\ results = <<>>

IdleQueryVars ==
    /\ qfn = "none"
    /\ h5_exists = FALSE
    /\ sim = <<>>
    /\ top_k = 1
    /\ works_idx = <<>>
    /\ work_filter = <<>>
    /\ block = 1
    /\ qpc = "idle"
    /\ qerr = ""
    /\ rows = <<>>
    /\ scores = <<>>
    /\ nscored = <<>>
    /\ qi = 0
    /\ idx = <<>>
    /\ results = <<>>

QRaise(e) ==
    /\ qpc' = "raised"
    /\ qerr' = e

(***************************************************************************)
(* query_hdf5                                                              *)
(***************************************************************************)
\* lines 400-422 and 427: existence check, open, candidate rows, np.empty
QueryOpen ==
    /\ qfn = "query_hdf5"
    /\ qpc = "call"
    /\ IF ~h5_exists
       THEN QRaise("FileNotFoundError") /\ UNCHANGED <<rows, scores, nscored>>
       ELSE LET bounds == CandidateBounds(works_idx, work_filter, Len(sim)) IN
            IF BoundsMissing(bounds)
            THEN QRaise("ValueError") /\ UNCHANGED <<rows, scores, nscored>>
            ELSE /\ rows' = Arange(bounds[1], bounds[2])
                 /\ scores' = [j \in 1..(bounds[2] - bounds[1]) |-> 0 - 1]  \* unwritten
                 /\ nscored' = [j \in 1..(bounds[2] - bounds[1]) |-> 0]
                 /\ qpc' = "scan"
                 /\ qerr' = ""
    /\ qi' = 0
    /\ UNCHANGED <<qfn, h5_exists, sim, works_idx, work_filter, top_k, block, idx, results>>
    /\ UNCHANGED <<prog, cvars, bvars, mvars, dvars, gvars>>

\* lines 428-431: one block of the scan
QueryScanBlock ==
    /\ qfn = "query_hdf5"
    /\ qpc = "scan"
    /\ qi < Len(rows)
    /\ LET sl == Slice(rows, qi, qi + block) IN
       /\ scores' = [j \in 1..Len(scores) |->
                        IF qi < j /\ j <= qi + Len(sl)
                        THEN At(sim, At(sl, j - 1 - qi))
                        ELSE scores[j]]
       /\ nscored' = [j \in 1..Len(nscored) |->
                        IF qi < j /\ j <= qi + Len(sl)
                        THEN nscored[j] + 1
                        ELSE nscored[j]]
    /\ qi' = qi + block
    /\ UNCHANGED <<qfn, h5_exists, sim, works_idx, work_filter, top_k, block, qpc,
                   qerr, rows, idx, results>>
    /\ UNCHANGED <<prog, cvars, bvars, mvars, dvars, gvars>>

\* lines 434-436: k = min(top_k, n); idx = np.argpartition(-scores, k - 1)[:k]
QueryArgPartition ==
    /\ qfn = "query_hdf5"
    /\ qpc = "scan"
    /\ qi >= Len(rows)
    /\ LET k == TopK(top_k, Len(scores)) IN
       IF ArgPartitionRaises(Len(scores), k - 1)
       THEN QRaise("ValueError") /\ idx' = idx
       ELSE /\ \E p \in ArgPartition(Negate(scores), k - 1) : idx' = FirstK(p, k)
            /\ qpc' = "sort"
            /\ qerr' = ""
    /\ UNCHANGED <<qfn, h5_exists, sim, works_idx, work_filter, top_k, block,
                   rows, scores, nscored, qi, results>>
    /\ UNCHANGED <<prog, cvars, bvars, mvars, dvars, gvars>>

\* line 438: idx = idx[np.argsort(-scores[idx])]
QueryArgSort ==
    /\ qfn = "query_hdf5"
    /\ qpc = "sort"
    /\ \E p \in ArgSort(Negate(Take(scores, idx))) : idx' = Take(idx, p)
    /\ qpc' = "results"
    /\ UNCHANGED <<qfn, h5_exists, sim, works_idx, work_filter, top_k, block, qerr,
                   rows, scores, nscored, qi, results>>
    /\ UNCHANGED <<prog, cvars, bvars, mvars, dvars, gvars>>

\* lines 440-457: the result records, ranks counted from 1
QueryResults ==
    /\ qfn = "query_hdf5"
    /\ qpc = "results"
    /\ results' = [j \in 1..Len(idx) |->
                     LET i_local == idx[j]
                         row == ResultRow(rows, i_local)
                     IN  [rank |-> j,
                          score |-> At(scores, i_local),
                          row |-> row,
                          work_id |-> WorkIdOfRow(works_idx, row)]]
    /\ qpc' = "done"
    /\ UNCHANGED <<qfn, h5_exists, sim, works_idx, work_filter, top_k, block, qerr,
                   rows, scores, nscored, qi, idx>>
    /\ UNCHANGED <<prog, cvars, bvars, mvars, dvars, gvars>>

(***************************************************************************)
(* topk_cosine_from_hdf5                                                   *)
(***************************************************************************)
\* lines 233-244: open, read every dataset whole, sims = emb_normed @ q
TopkOpen ==
    /\ qfn = "topk_cosine_from_hdf5"
    /\ qpc = "call"
    /\ IF ~h5_exists
       THEN QRaise("FileNotFoundError") /\ UNCHANGED <<rows, scores, nscored>>
       ELSE /\ rows' = Arange(0, Len(sim))
            /\ scores' = sim
            /\ nscored' = [j \in 1..Len(sim) |-> 1]
            /\ qpc' = "topk"
            /\ qerr' = ""
    /\ UNCHANGED <<qfn, h5_exists, sim, works_idx, work_filter, top_k, block, qi,
                   idx, results>>
    /\ UNCHANGED <<prog, cvars, bvars, mvars, dvars, gvars>>

\* line 245: idx = np.argpartition(sims, -k)[-k:]
TopkArgPartition ==
    /\ qfn = "topk_cosine_from_hdf5"
    /\ qpc = "topk"
    /\ IF ArgPartitionRaises(Len(scores), 0 - top_k)
       THEN QRaise("ValueError") /\ idx' = idx
       ELSE /\ \E p \in ArgPartition(scores, 0 - top_k) : idx' = LastK(p, top_k)
            /\ qpc' = "sort"
            /\ qerr' = ""
    /\ UNCHANGED <<qfn, h5_exists, sim, works_idx, work_filter, top_k, block,
                   rows, scores, nscored, qi, results>>
    /\ UNCHANGED <<prog, cvars, bvars, mvars, dvars, gvars>>

\* line 246: idx = idx[np.argsort(-sims[idx])]
TopkArgSort ==
    /\ qfn = "topk_cosine_from_hdf5"
    /\ qpc = "sort"
    /\ \E p \in ArgSort(Negate(Take(scores, idx))) : idx' = Take(idx, p)
    /\ qpc' = "results"
    /\ UNCHANGED <<qfn, h5_exists, sim, works_idx, work_filter, top_k, block, qerr,
                   rows, scores, nscored, qi, results>>
    /\ UNCHANGED <<prog, cvars, bvars, mvars, dvars, gvars>>

\* lines 248-256: the result records (row is the index i the record was read at)
TopkResults ==
    /\ qfn = "topk_cosine_from_hdf5"
    /\ qpc = "results"
    /\ results' = [j \in 1..Len(idx) |->
                     [score |-> At(scores, idx[j]), row |-> idx[j]]]
    /\ qpc' = "done"
    /\ UNCHANGED <<qfn, h5_exists, sim, works_idx, work_filter, top_k, block, qerr,
                   rows, scores, nscored, qi, idx>>
    /\ UNCHANGED <<prog, cvars, bvars, mvars, dvars, gvars>>

NextQuery ==
    \/ QueryOpen
    \/ QueryScanBlock
    \/ QueryArgPartition
    \/ QueryArgSort
    \/ QueryResults
    \/ TopkOpen
    \/ TopkArgPartition
    \/ TopkArgSort
    \/ TopkResults

(***************************************************************************)
(* Bounds of the build model.                                              *)
(***************************************************************************)
MaxWorks == 3
MaxChunks == 2
MaxBuilds == 2

\* The works split_works returns, each given by the number of chunks
\* chunk_by_tokens returns for its body (0 for a body with no text).
Corpora == UNION {[1..n -> 0..MaxChunks] : n \in 0..MaxWorks}

Parts == {"meta", "chunks/text", "chunks/work_id", "chunks/embedding", "works/index"}

\* The file at the path: the groups and datasets written so far, the number
\* of rows of each per-row dataset, and what the claims read back.
NoRows == [d \in {} |-> 0]

NoFile ==
    [exists |-> FALSE, open |-> FALSE, parts |-> {}, created_at |-> 0,
     work_id |-> <<>>, index |-> <<>>, rows |-> NoRows]

\* A store every group and dataset of which was written, and closed.
Complete(f) == f.exists /\ ~f.open /\ f.parts = Parts

\* Variant: an existing file is kept whatever the rebuild flag says.
SkipBuildIgnoresRebuild(exists, rb) == exists

\* Variant: the rebuild flag read the wrong way round.
SkipBuildFlagInverted(exists, rb) == exists /\ rb

\* build_if_missing, line 301: skip when the file exists and no rebuild is asked
SkipBuild(exists, rb) == exists /\ ~rb

\* Variant: works without chunks are not skipped.
SkipWorkNever(m) == FALSE

\* line 324: if not chunks: continue
SkipWork(m) == m = 0

\* Variant: the rows are numbered by enumerate(..., start=1).
ExtendWorkIdsFromOne(wids, wid, m) == wids \o [j \in 1..m |-> wid + 1]

\* line 328: all_work_ids.extend([work_id] * len(chunks))
ExtendWorkIds(wids, wid, m) == wids \o [j \in 1..m |-> wid]

\* lines 326-337: the works index entry of a work of m chunks
IndexEntry(wid, cursor, m) ==
    [work_id |-> wid, title |-> <<"work", wid>>,
     start_row |-> cursor, end_row |-> cursor + m]

\* Variant: the embeddings are left out of the comparison.
WriteAssertTextsOnly(chunk_texts, embs, wids) == Len(chunk_texts) = Len(wids)

\* write_hdf5, line 230
WriteAssert(chunk_texts, embs, wids) ==
    Len(chunk_texts) = Len(embs) /\ Len(embs) = Len(wids)

\* What a reader that opens the path sees.  While the writer has the file
\* open the reader either fails to open it (HDF5 file locking, or no valid
\* superblock yet) or reads what has been flushed so far.
Observations(f) ==
    IF ~f.exists THEN {"absent"}
    ELSE IF f.open THEN {"unreadable", "partial"}
    ELSE IF f.parts = Parts THEN {"complete"}
    ELSE {"partial"}

InitBuildVars ==
    /\ pc = "idle"
    /\ rebuild = FALSE
    /\ works \in Corpora
    /\ work_id = 0
    /\ all_chunks = <<>>
    /\ all_work_ids = <<>>
    /\ works_index = <<>>
    /\ row_cursor = 0
    /\ embeddings = <<>>
    /\ meta_created_at = 0
    /\ file = NoFile
    /\ file_at_entry = NoFile
    /\ now = 0
    /\ builds = 0
    /\ obs = "none"

IdleBuildVars ==
    /\ pc = "off"
    /\ rebuild = FALSE
    /\ works = <<>>
    /\ work_id = 0
    /\ all_chunks = <<>>
    /\ all_work_ids = <<>>
    /\ works_index = <<>>
    /\ row_cursor = 0
    /\ embeddings = <<>>
    /\ meta_created_at = 0
    /\ file = NoFile
    /\ file_at_entry = NoFile
    /\ now = 0
    /\ builds = 0
    /\ obs = "none"

\* cli, line 485: a run of the build command; the clock has moved on
BuildCall ==
    /\ prog = "build_if_missing"
    /\ pc \in {"idle", "returned", "raised"}
    /\ builds < MaxBuilds
    /\ builds' = builds + 1
    /\ now' = now + 1
    /\ \E rb \in BOOLEAN : rebuild' = rb
    /\ file_at_entry' = file
    /\ pc' = "entry"
    /\ UNCHANGED <<works, work_id, all_chunks, all_work_ids, works_index, row_cursor,
                   embeddings, meta_created_at, file, obs>>
    /\ UNCHANGED <<prog, cvars, qvars, mvars, dvars, gvars>>

\* lines 301-303
BuildEntry ==
    /\ pc = "entry"
    /\ pc' = IF SkipBuild(file.exists, rebuild) THEN "returned" ELSE "download"
    /\ UNCHANGED <<rebuild, works, work_id, all_chunks, all_work_ids, works_index,
                   row_cursor, embeddings, meta_created_at, file, file_at_entry, now,
                   builds, obs>>
    /\ UNCHANGED <<prog, cvars, qvars, mvars, dvars, gvars>>

\* lines 305-320: download, split, load the models, empty lists
BuildDownload ==
    /\ pc = "download"
    /\ pc' = "chunk"
    /\ work_id' = 0
    /\ all_chunks' = <<>>
    /\ all_work_ids' = <<>>
    /\ works_index' = <<>>
    /\ row_cursor' = 0
    /\ embeddings' = <<>>
    /\ UNCHANGED <<rebuild, works, meta_created_at, file, file_at_entry, now, builds, obs>>
    /\ UNCHANGED <<prog, cvars, qvars, mvars, dvars, gvars>>

\* lines 322-337: one iteration of the chunking loop
BuildChunkWork ==
    /\ pc = "chunk"
    /\ work_id < Len(works)
    /\ LET m == At(works, work_id) IN
       IF SkipWork(m)
       THEN UNCHANGED <<all_chunks, all_work_ids, works_index, row_cursor>>
       ELSE /\ all_chunks' = all_chunks \o [j \in 1..m |-> <<work_id, j>>]
            /\ all_work_ids' = ExtendWorkIds(all_work_ids, work_id, m)
            /\ row_cursor' = row_cursor + m
            /\ works_index' = Append(works_index, IndexEntry(work_id, row_cursor, m))
    /\ work_id' = work_id + 1
    /\ UNCHANGED <<pc, rebuild, works, embeddings, meta_created_at, file, file_at_entry,
                   now, builds, obs>>
    /\ UNCHANGED <<prog, cvars, qvars, mvars, dvars, gvars>>

\* Variant: the array of no embeddings has two dimensions.
EmbedDimRaisesNever(embs) == FALSE

\* line 349: embeddings.shape[1].  With no chunk at all the encoder returns an
\* array of shape (0,), and the subscript raises IndexError.
EmbedDimRaises(embs) == Len(embs) = 0

\* lines 339-352: embed all chunks, build meta
BuildEmbed ==
    /\ pc = "chunk"
    /\ work_id >= Len(works)
    /\ embeddings' = [j \in 1..Len(all_chunks) |-> all_chunks[j]]
    /\ IF EmbedDimRaises(embeddings')
       THEN pc' = "raised" /\ UNCHANGED meta_created_at
       ELSE pc' = "write" /\ meta_created_at' = now
    /\ UNCHANGED <<rebuild, works, work_id, all_chunks, all_work_ids, works_index,
                   row_cursor, file, file_at_entry, now, builds, obs>>
    /\ UNCHANGED <<prog, cvars, qvars, mvars, dvars, gvars>>

\* A stage before the file is opened fails (network, model loading, memory):
\* the exception leaves build_if_missing.
BuildFail ==
    /\ pc \in {"download", "chunk"}
    /\ pc' = "raised"
    /\ UNCHANGED <<rebuild, works, work_id, all_chunks, all_work_ids, works_index,
                   row_cursor, embeddings, meta_created_at, file, file_at_entry, now,
                   builds, obs>>
    /\ UNCHANGED <<prog, cvars, qvars, mvars, dvars, gvars>>

\* write_hdf5, lines 230-236: the assertion, then h5py.File(h5_path, "w"),
\* which creates the file or truncates the one that is there
WriteOpen ==
    /\ pc = "write"
    /\ IF WriteAssert(all_chunks, embeddings, all_work_ids)
       THEN /\ file' = [NoFile EXCEPT !.exists = TRUE, !.open = TRUE]
            /\ pc' = "w:meta"
       ELSE /\ pc' = "raised"
            /\ file' = file
    /\ UNCHANGED <<rebuild, works, work_id, all_chunks, all_work_ids, works_index,
                   row_cursor, embeddings, meta_created_at, file_at_entry, now, builds, obs>>
    /\ UNCHANGED <<prog, cvars, qvars, mvars, dvars, gvars>>

WriteStep(from, to, f) ==
    /\ pc = from
    /\ pc' = to
    /\ file' = f
    /\ UNCHANGED <<rebuild, works, work_id, all_chunks, all_work_ids, works_index,
                   row_cursor, embeddings, meta_created_at, file_at_entry, now, builds, obs>>
    /\ UNCHANGED <<prog, cvars, qvars, mvars, dvars, gvars>>

\* lines 238-240
WriteMeta ==
    WriteStep("w:meta", "w:text",
              [file EXCEPT !.parts = @ \cup {"meta"}, !.created_at = meta_created_at])

\* lines 243-251
WriteText ==
    WriteStep("w:text", "w:work_id",
              [file EXCEPT !.parts = @ \cup {"chunks/text"},
                           !.rows = @ @@ ("chunks/text" :> Len(all_chunks))])

\* lines 252-259
WriteWorkId ==
    WriteStep("w:work_id", "w:embedding",
              [file EXCEPT !.parts = @ \cup {"chunks/work_id"}, !.work_id = all_work_ids,
                           !.rows = @ @@ ("chunks/work_id" :> Len(all_work_ids))])

\* lines 260-267
WriteEmbedding ==
    WriteStep("w:embedding", "w:index",
              [file EXCEPT !.parts = @ \cup {"chunks/embedding"},
                           !.rows = @ @@ ("chunks/embedding" :> Len(embeddings))])

\* lines 270-294
WriteIndex ==
    WriteStep("w:index", "w:close",
              [file EXCEPT !.parts = @ \cup {"works/index"}, !.index = works_index])

\* the end of the with block: the file is closed; line 363
WriteClose ==
    WriteStep("w:close", "returned", [file EXCEPT !.open = FALSE])

\* An exception inside the with block (disk full, I/O error, interrupt): the
\* with statement closes the file, what was written stays at the path, and the
\* exception leaves build_if_missing.
WriteFail ==
    WriteStep(pc, "raised", [file EXCEPT !.open = FALSE])
    /\ pc \in {"w:meta", "w:text", "w:work_id", "w:embedding", "w:index"}

\* A reader (query_hdf5, list-works) opens the path.
ReaderOpen ==
    /\ pc # "off"
    /\ \E o \in Observations(file) : obs' = o
    /\ UNCHANGED <<pc, rebuild, works, work_id, all_chunks, all_work_ids, works_index,
                   row_cursor, embeddings, meta_created_at, file, file_at_entry, now, builds>>
    /\ UNCHANGED <<prog, cvars, qvars, mvars, dvars, gvars>>

NextBuild ==
    \/ BuildCall
    \/ BuildEntry
    \/ BuildDownload
    \/ BuildChunkWork
    \/ BuildEmbed
    \/ BuildFail
    \/ WriteOpen
    \/ WriteMeta
    \/ WriteText
    \/ WriteWorkId
    \/ WriteEmbedding
    \/ WriteIndex
    \/ WriteClose
    \/ WriteFail
    \/ ReaderOpen

(***************************************************************************)
(* SpecChunk: the inputs are drawn in Init, one action per chunker.        *)
(***************************************************************************)
InitChunkVars ==
    /\ cfn \in {"chunk_text_by_tokens", "chunk_by_tokens"}
    /\ ids \in TokenSeqs
    /\ max_tokens \in 1..MaxTokens
    /\ overlap \in 0..MaxTokens
    /\ cpc = "call"
    /\ chunks = <<>>

IdleChunkVars ==
    /\ cfn = "none"
    /\ ids = <<>>
    /\ max_tokens = 1
    /\ overlap = 0
    /\ cpc = "idle"
    /\ chunks = <<>>

CallChunkTextByTokens ==
    /\ cpc = "call"
    /\ cfn = "chunk_text_by_tokens"
    /\ IF ~ChunkTextAssert(max_tokens, overlap)
       THEN cpc' = "raised" /\ chunks' = <<>>
       ELSE cpc' = "returned" /\ chunks' = ChunkTextByTokens(ids, max_tokens, overlap)
    /\ UNCHANGED <<cfn, ids, max_tokens, overlap>>
    /\ UNCHANGED <<prog, qvars, bvars, mvars, dvars, gvars>>

CallChunkByTokens ==
    /\ cpc = "call"
    /\ cfn = "chunk_by_tokens"
    /\ IF Len(ids) > 0 /\ RangeRaises(ByStep(max_tokens, overlap))
       THEN cpc' = "raised" /\ chunks' = <<>>
       ELSE cpc' = "returned" /\ chunks' = ChunkByTokens(ids, max_tokens, overlap)
    /\ UNCHANGED <<cfn, ids, max_tokens, overlap>>
    /\ UNCHANGED <<prog, qvars, bvars, mvars, dvars, gvars>>

NextChunk ==
    \/ CallChunkTextByTokens
    \/ CallChunkByTokens

NoColumns ==
    [texts |-> <<>>, start_tokens |-> <<>>, end_tokens |-> <<>>, doc_ids |-> <<>>,
     titles |-> <<>>, source_urls |-> <<>>, embeddings |-> <<>>,
     embeddings_normed |-> <<>>]

IdleMainVars ==
    /\ mpc = "off"
    /\ columns = NoColumns

IdleDownloadVars ==
    /\ dfn = "none"
    /\ responses = <<>>
    /\ durl = 0
    /\ tried = <<>>
    /\ last_err = NoneVal
    /\ dpc = "off"
    /\ dresult = NoneVal

IdleGalaVars ==
    /\ citations = <<>>
    /\ gi = 0
    /\ gpc = "off"
    /\ gs = 0
    /\ report = <<>>

\* The entry points that are not run.
IdleOthers == IdleDownloadVars /\ IdleGalaVars

(***************************************************************************)
(* build_shakespeare_hdf5.main and persist_to_hdf5: one document, chunked  *)
(* by chunk_text_by_tokens, written to args.out whatever is there.         *)
(***************************************************************************)
\* A complete store left at the path by an earlier run.
PriorStore ==
    [exists |-> TRUE, open |-> FALSE, parts |-> Parts, created_at |-> 0,
     work_id |-> <<0>>, index |-> <<IndexEntry(0, 0, 1)>>,
     rows |-> [d \in {"chunks/text", "chunks/work_id", "chunks/embedding"} |-> 1]]

\* persist_to_hdf5, lines 194-211: the datasets in the order they are
\* created, each with the argument it is created from
PersistOrder ==
    << [dataset |-> "embeddings", column |-> "embeddings"],
       [dataset |-> "embeddings_normed", column |-> "embeddings_normed"],
       [dataset |-> "texts", column |-> "texts"],
       [dataset |-> "title", column |-> "titles"],
       [dataset |-> "source_url", column |-> "source_urls"],
       [dataset |-> "doc_id", column |-> "doc_ids"],
       [dataset |-> "start_token", column |-> "start_tokens"],
       [dataset |-> "end_token", column |-> "end_tokens"] >>

\* main, line 297
NoChunks(chnks) == Len(chnks) = 0

\* l2_normalize_rows, line 164: np.linalg.norm(x, axis=1) raises AxisError on
\* the one-dimensional array the encoder returns for no texts.
NormalizeRaises(x) == Len(x) = 0

\* main, lines 300-305
ColumnLists(chnks) ==
    [NoColumns EXCEPT
        !.texts = [j \in 1..Len(chnks) |-> chnks[j].text],
        !.start_tokens = [j \in 1..Len(chnks) |-> chnks[j].start],
        !.end_tokens = [j \in 1..Len(chnks) |-> chnks[j].end],
        !.doc_ids = [j \in 1..Len(chnks) |-> "gutenberg_id"],
        !.titles = [j \in 1..Len(chnks) |-> "title"],
        !.source_urls = [j \in 1..Len(chnks) |-> "url_used"]]

InitMainVars ==
    /\ cfn = "chunk_text_by_tokens"
    /\ ids \in TokenSeqs
    /\ max_tokens \in 1..MaxTokens
    /\ overlap \in 0..MaxTokens
    /\ cpc = "idle"
    /\ chunks = <<>>
    /\ pc = "off"
    /\ rebuild = FALSE
    /\ works = <<>>
    /\ work_id = 0
    /\ all_chunks = <<>>
    /\ all_work_ids = <<>>
    /\ works_index = <<>>
    /\ row_cursor = 0
    /\ embeddings = <<>>
    /\ meta_created_at = 0
    /\ file \in {NoFile, PriorStore}
    /\ file_at_entry = file
    /\ now = 1
    /\ builds = 0
    /\ obs = "none"
    /\ mpc = "download"
    /\ columns = NoColumns

\* What no step of main changes.
MainFrame ==
    /\ UNCHANGED <<prog, qvars, dvars, gvars>>
    /\ UNCHANGED <<cfn, ids, max_tokens, overlap, cpc>>
    /\ UNCHANGED <<pc, rebuild, works, work_id, all_chunks, all_work_ids, works_index,
                   row_cursor, embeddings, meta_created_at, file_at_entry, now, builds,
                   obs>>

\* lines 279-291: download, strip the boilerplate, load model and tokenizer
MainDownload ==
    /\ mpc = "download"
    /\ mpc' = "chunk"
    /\ UNCHANGED <<chunks, columns, file>>
    /\ MainFrame

\* line 295
MainChunk ==
    /\ mpc = "chunk"
    /\ IF ~ChunkTextAssert(max_tokens, overlap)
       THEN mpc' = "raised" /\ chunks' = <<>>
       ELSE mpc' = "check" /\ chunks' = ChunkTextByTokens(ids, max_tokens, overlap)
    /\ UNCHANGED <<columns, file>>
    /\ MainFrame

\* lines 297-305
MainCheck ==
    /\ mpc = "check"
    /\ IF NoChunks(chunks)
       THEN mpc' = "raised" /\ UNCHANGED columns
       ELSE mpc' = "embed" /\ columns' = ColumnLists(chunks)
    /\ UNCHANGED <<chunks, file>>
    /\ MainFrame

\* lines 308-309: one embedding per text, then the normalized copy
MainEmbed ==
    /\ mpc = "embed"
    /\ LET emb == [j \in 1..Len(columns.texts) |-> columns.texts[j]] IN
       IF NormalizeRaises(emb)
       THEN /\ mpc' = "raised"
            /\ columns' = [columns EXCEPT !.embeddings = emb]
       ELSE /\ mpc' = "persist"
            /\ columns' = [columns EXCEPT !.embeddings = emb, !.embeddings_normed = emb]
    /\ UNCHANGED <<chunks, file>>
    /\ MainFrame

\* A stage before the file is opened fails (network, model loading, memory).
MainFail ==
    /\ mpc \in {"download", "chunk", "embed"}
    /\ mpc' = "raised"
    /\ UNCHANGED <<chunks, columns, file>>
    /\ MainFrame

\* persist_to_hdf5, lines 187-192: h5py.File(out_path, "w")
PersistOpen ==
    /\ mpc = "persist"
    /\ mpc' = "datasets"
    /\ file' = [NoFile EXCEPT !.exists = TRUE, !.open = TRUE]
    /\ UNCHANGED <<chunks, columns>>
    /\ MainFrame

\* lines 194-211: the next create_dataset
PersistDataset ==
    /\ mpc = "datasets"
    /\ Cardinality(file.parts) < Len(PersistOrder)
    /\ LET d == PersistOrder[Cardinality(file.parts) + 1] IN
       file' = [file EXCEPT !.parts = @ \cup {d.dataset},
                            !.rows = @ @@ (d.dataset :> Len(columns[d.column]))]
    /\ UNCHANGED <<mpc, chunks, columns>>
    /\ MainFrame

\* lines 214-222: the file attributes
PersistAttrs ==
    /\ mpc = "datasets"
    /\ Cardinality(file.parts) = Len(PersistOrder)
    /\ mpc' = "close"
    /\ file' = [file EXCEPT !.parts = @ \cup {"attrs"}, !.created_at = now]
    /\ UNCHANGED <<chunks, columns>>
    /\ MainFrame

\* the end of the with block; main, line 334
PersistClose ==
    /\ mpc = "close"
    /\ mpc' = "returned"
    /\ file' = [file EXCEPT !.open = FALSE]
    /\ UNCHANGED <<chunks, columns>>
    /\ MainFrame

\* An exception inside the with block: the file is closed as it is.
PersistFail ==
    /\ mpc = "datasets"
    /\ mpc' = "raised"
    /\ file' = [file EXCEPT !.open = FALSE]
    /\ UNCHANGED <<chunks, columns>>
    /\ MainFrame

NextMain ==
    \/ MainDownload
    \/ MainChunk
    \/ MainCheck
    \/ MainEmbed
    \/ MainFail
    \/ PersistOpen
    \/ PersistDataset
    \/ PersistAttrs
    \/ PersistClose
    \/ PersistFail

(***************************************************************************)
(* SpecPrograms: the entry points that write a store.  One run of the      *)
(* build command or of main, over whatever an earlier run left at the      *)
(* path, or a call of write_hdf5 on its own with arrays of any lengths.    *)
(***************************************************************************)
InitLastBuildVars ==
    /\ pc = "idle"
    /\ rebuild = FALSE
    /\ works \in Corpora
    /\ work_id = 0
    /\ all_chunks = <<>>
    /\ all_work_ids = <<>>
    /\ works_index = <<>>
    /\ row_cursor = 0
    /\ embeddings = <<>>
    /\ meta_created_at = 0
    /\ file \in {NoFile, PriorStore}
    /\ file_at_entry = file
    /\ now = 1
    /\ builds = MaxBuilds - 1
    /\ obs = "none"

InitWriteCallVars ==
    /\ pc = "write"
    /\ rebuild = FALSE
    /\ works = <<>>
    /\ work_id = 0
    /\ \E a, b, c \in 0..MaxChunks :
          /\ all_chunks = [j \in 1..a |-> <<0, j>>]
          /\ embeddings = [j \in 1..b |-> <<0, j>>]
          /\ all_work_ids = [j \in 1..c |-> 0]
          /\ works_index = IF c > 0 THEN <<IndexEntry(0, 0, c)>> ELSE <<>>
          /\ row_cursor = c
    /\ meta_created_at = 1
    /\ file \in {NoFile, PriorStore}
    /\ file_at_entry = file
    /\ now = 1
    /\ builds = 0
    /\ obs = "none"

InitPrograms ==
    \/ /\ prog = "build_if_missing"
       /\ InitLastBuildVars /\ IdleChunkVars /\ IdleQueryVars /\ IdleMainVars
       /\ IdleOthers
    \/ /\ prog = "main"
       /\ InitMainVars /\ IdleQueryVars /\ IdleOthers
    \/ /\ prog = "write_hdf5"
       /\ InitWriteCallVars /\ IdleChunkVars /\ IdleQueryVars /\ IdleMainVars
       /\ IdleOthers

NextPrograms == NextBuild \/ NextMain

SpecPrograms == InitPrograms /\ [][NextPrograms]_vars

(***************************************************************************)
(* SpecDownload: download_shakespeare_text (shakespeare_hdf5_vectors.py)   *)
(* and download_gutenberg_text (build_shakespeare_hdf5.py).  Both walk a   *)
(* list of candidate URLs; what the network does for each is an input.     *)
(***************************************************************************)
\* lines 43-50
GUTENBERG_URLS ==
    << "https://www.gutenberg.org/files/100/100-0.txt",
       "https://www.gutenberg.org/cache/epub/100/pg100.txt",
       "https://www.gutenberg.org/cache/epub/100/pg100.txt.utf8" >>

\* candidate_gutenberg_urls, with gid written for the ebook id
CandidateGutenbergUrls ==
    << "https://www.gutenberg.org/ebooks/gid.txt.utf-8",
       "https://www.gutenberg.org/files/gid/gid-0.txt",
       "https://www.gutenberg.org/files/gid/gid.txt",
       "https://www.gutenberg.org/cache/epub/gid/pggid.txt",
       "https://www.gutenberg.org/cache/epub/gid/pggid.txt.utf8" >>

UrlsOf(fn) ==
    IF fn = "download_shakespeare_text" THEN GUTENBERG_URLS ELSE CandidateGutenbergUrls

\* What requests.get(url) does: it raises (connection error, timeout), or
\* returns a response that is not ok (status 4xx/5xx), or an ok response
\* with an empty text, a text of at most 100000 characters, or a longer text
\* without or with the Gutenberg START and END marks.
ResponseKinds == {"exception", "not_ok", "empty", "short", "long", "long_marked"}

\* download_shakespeare_text, line 62; download_gutenberg_text, line 77
Acceptable(fn, resp) ==
    IF fn = "download_shakespeare_text"
    THEN resp \in {"long", "long_marked"}
    ELSE resp \in {"short", "long", "long_marked"}

\* Variant: no try/except around the request.
TryOutcomeNoCatch(fn, resp) ==
    IF resp = "exception" THEN "raise"
    ELSE IF Acceptable(fn, resp) THEN "return" ELSE "next"

\* One iteration of the loop: the function returns, or goes on to the next
\* candidate (the response is not acceptable, or the exception was caught).
TryOutcome(fn, resp) == IF Acceptable(fn, resp) THEN "return" ELSE "next"

\* download_shakespeare_text, lines 63-71: the text between the marks when
\* both are there; download_gutenberg_text, line 79: the text as received.
TextReturned(fn, k, resp) ==
    [from |-> k,
     part |-> IF fn = "download_shakespeare_text" /\ resp = "long_marked"
              THEN "between marks" ELSE "whole"]

InitDownloadVars ==
    /\ dfn \in {"download_shakespeare_text", "download_gutenberg_text"}
    /\ responses \in [1..Len(UrlsOf(dfn)) -> ResponseKinds]
    /\ durl = 0
    /\ tried = <<>>
    /\ last_err = NoneVal
    /\ dpc = "loop"
    /\ dresult = NoneVal

\* One iteration of "for url in ...": the request and what follows it
DownloadTry ==
    /\ dpc = "loop"
    /\ durl < Len(UrlsOf(dfn))
    /\ tried' = Append(tried, durl)
    /\ LET resp == At(responses, durl)
           out == TryOutcome(dfn, resp)
       IN  /\ dpc' = IF out = "return" THEN "returned"
                     ELSE IF out = "next" THEN "loop" ELSE "raised"
           /\ dresult' = IF out = "return"
                         THEN [text |-> TextReturned(dfn, durl, resp),
                               url |-> At(UrlsOf(dfn), durl)]
                         ELSE dresult
           /\ durl' = IF out = "next" THEN durl + 1 ELSE durl
           /\ last_err' = IF resp = "exception" THEN <<"error", durl>> ELSE last_err
    /\ UNCHANGED <<dfn, responses>>
    /\ UNCHANGED <<prog, cvars, qvars, bvars, mvars, gvars>>

\* The list is exhausted: raise RuntimeError
DownloadExhausted ==
    /\ dpc = "loop"
    /\ durl >= Len(UrlsOf(dfn))
    /\ dpc' = "raised"
    /\ UNCHANGED <<dfn, responses, durl, tried, last_err, dresult>>
    /\ UNCHANGED <<prog, cvars, qvars, bvars, mvars, gvars>>

NextDownload ==
    \/ DownloadTry
    \/ DownloadExhausted

InitDownload ==
    /\ prog = "download"
    /\ InitDownloadVars /\ IdleGalaVars
    /\ IdleChunkVars /\ IdleQueryVars /\ IdleBuildVars /\ IdleMainVars

SpecDownload == InitDownload /\ [][NextDownload]_vars

(***************************************************************************)
(* SpecGala: gala_loader.process_citations.  The rows of the CSV file are  *)
(* an input; what Wikidata answers to each call is chosen when the call is *)
(* made.                                                                   *)
(***************************************************************************)
MaxCitations == 2

\* line 99: len(title) < 5
MinTitleLength == 5

\* str.strip()
RECURSIVE StripLeft(_)
StripLeft(t) == IF t # <<>> /\ Head(t) = " " THEN StripLeft(Tail(t)) ELSE t

RECURSIVE StripRight(_)
StripRight(t) ==
    IF t # <<>> /\ t[Len(t)] = " " THEN StripRight(SubSeq(t, 1, Len(t) - 1)) ELSE t

Strip(t) == StripRight(StripLeft(t))

\* Titles of the CSV: none, one of five characters of which four are left
\* after strip(), and one of five.
GalaTitles ==
    { <<>>, <<" ", "a", "b", "c", "d">>, <<"a", "b", "c", "d", "e">> }

GalaRows == [locale : {"en", "fr"}, title : GalaTitles]

\* line 96
LocaleSkipped(row) == row.locale # "en"

\* lines 92, 99: title is the stripped column
TitleSkipped(row) ==
    LET title == Strip(row.title) IN title = <<>> \/ Len(title) < MinTitleLength

\* Variant: the statements are added whether the item is new or not.
AddsStatementsAlways(is_new) == TRUE

\* line 111: if is_new
AddsStatements(is_new) == is_new

\* lines 115-140: what is done for a new item, in order
NewItemSteps ==
    << [kind |-> "statement", property |-> "P31", value |-> "Q155207"],
       [kind |-> "statement", property |-> "P31", value |-> "Q732557"],
       [kind |-> "statement", property |-> "P953", value |-> "url"],
       [kind |-> "authors", property |-> "", value |-> ""],
       [kind |-> "statement", property |-> "P1433", value |-> "Q130549584"],
       [kind |-> "statement", property |-> "P6216", value |-> "Q50423863"] >>

\* The calls made for a row: none yet.
NoCalls ==
    [lookup |-> FALSE, found |-> FALSE, created |-> FALSE, addClaim |-> 0,
     error |-> FALSE]

InitGalaVars ==
    /\ citations \in UNION {[1..n -> GalaRows] : n \in 0..MaxCitations}
    /\ gi = 0
    /\ gpc = "row"
    /\ gs = 0
    /\ report = <<>>

GalaFrame == UNCHANGED <<prog, cvars, qvars, bvars, mvars, dvars>>

\* lines 92-101: the row is passed over
RowSkip ==
    /\ gpc = "row"
    /\ gi < Len(citations)
    /\ LocaleSkipped(At(citations, gi)) \/ TitleSkipped(At(citations, gi))
    /\ report' = Append(report, NoCalls)
    /\ gi' = gi + 1
    /\ UNCHANGED <<citations, gpc, gs>>
    /\ GalaFrame

\* lines 106-111 and 144-148, create_or_find_item lines 17-29: the search.
\* It finds a matching item, or finds none, or a call raises.
RowLookup ==
    /\ gpc = "row"
    /\ gi < Len(citations)
    /\ ~LocaleSkipped(At(citations, gi))
    /\ ~TitleSkipped(At(citations, gi))
    /\ \E o \in {"found", "none", "raises"} :
          /\ report' = Append(report, [NoCalls EXCEPT !.lookup = TRUE,
                                                      !.found = (o = "found"),
                                                      !.error = (o = "raises")])
          /\ IF o = "none" THEN gpc' = "create" /\ UNCHANGED gi
             ELSE IF o = "found" /\ AddsStatements(FALSE)
                  THEN gpc' = "new" /\ UNCHANGED gi
                  ELSE gpc' = "row" /\ gi' = gi + 1
    /\ gs' = 0
    /\ UNCHANGED citations
    /\ GalaFrame

\* create_or_find_item, lines 32-35: ItemPage and editLabels, which may raise
RowCreate ==
    /\ gpc = "create"
    /\ \E ok \in BOOLEAN :
          /\ report' = [report EXCEPT ![Len(report)].created = ok,
                                      ![Len(report)].error = ~ok]
          /\ IF ok /\ AddsStatements(TRUE)
             THEN gpc' = "new" /\ UNCHANGED gi
             ELSE gpc' = "row" /\ gi' = gi + 1
    /\ UNCHANGED <<citations, gs>>
    /\ GalaFrame

\* One add_statement call (lines 37-81): item.addClaim is called (and an
\* exception of it is caught inside), or the property has an unknown
\* datatype and nothing is called, or prop.get / setTarget raises and the
\* exception reaches the handler at line 147.  After the last step the loop
\* goes to the next row (line 143).
RowStatement ==
    /\ gpc = "new"
    /\ gs < Len(NewItemSteps)
    /\ At(NewItemSteps, gs).kind = "statement"
    /\ \E o \in {"addClaim", "unknown type", "raises"} :
          /\ report' = [report EXCEPT
                           ![Len(report)].addClaim = IF o = "addClaim" THEN @ + 1 ELSE @,
                           ![Len(report)].error = (o = "raises")]
          /\ IF o = "raises" \/ gs + 1 = Len(NewItemSteps)
             THEN gpc' = "row" /\ gi' = gi + 1 /\ gs' = 0
             ELSE gs' = gs + 1 /\ UNCHANGED <<gpc, gi>>
    /\ UNCHANGED citations
    /\ GalaFrame

\* lines 126-128: json.loads(row['authors']) and the names, which may raise
RowAuthors ==
    /\ gpc = "new"
    /\ gs < Len(NewItemSteps)
    /\ At(NewItemSteps, gs).kind = "authors"
    /\ \E ok \in BOOLEAN :
          /\ report' = [report EXCEPT ![Len(report)].error = ~ok]
          /\ IF ok
             THEN gs' = gs + 1 /\ UNCHANGED <<gpc, gi>>
             ELSE gpc' = "row" /\ gi' = gi + 1 /\ gs' = 0
    /\ UNCHANGED citations
    /\ GalaFrame

\* line 90: the rows are exhausted
LoopEnd ==
    /\ gpc = "row"
    /\ gi >= Len(citations)
    /\ gpc' = "done"
    /\ UNCHANGED <<citations, gi, gs, report>>
    /\ GalaFrame

NextGala ==
    \/ RowSkip
    \/ RowLookup
    \/ RowCreate
    \/ RowStatement
    \/ RowAuthors
    \/ LoopEnd

InitGala ==
    /\ prog = "process_citations"
    /\ InitGalaVars /\ IdleDownloadVars
    /\ IdleChunkVars /\ IdleQueryVars /\ IdleBuildVars /\ IdleMainVars

SpecGala == InitGala /\ [][NextGala]_vars

InitChunk ==
    /\ prog = "chunker"
    /\ InitChunkVars /\ IdleQueryVars /\ IdleBuildVars /\ IdleMainVars /\ IdleOthers

SpecChunk == InitChunk /\ [][NextChunk]_vars

InitQuery ==
    /\ prog = "query"
    /\ InitQueryVars /\ IdleChunkVars /\ IdleBuildVars /\ IdleMainVars /\ IdleOthers

SpecQuery == InitQuery /\ [][NextQuery]_vars

InitBuild ==
    /\ prog = "build_if_missing"
    /\ InitBuildVars /\ IdleChunkVars /\ IdleQueryVars /\ IdleMainVars /\ IdleOthers

SpecBuild == InitBuild /\ [][NextBuild]_vars


(***************************************************************************)
(* Claims about the chunkers (checked under SpecChunk).                    *)
(***************************************************************************)
ValidChunkArgs == max_tokens > 0 /\ 0 <= overlap /\ overlap < max_tokens

NoSpecialTokens == \A j \in 1..Len(ids) : ids[j] # "UNK"

\* C2: for valid (max_tokens, overlap), with step = max_tokens - overlap, the
\* i-th emitted window (counting from 0) covers exactly
\* [i*step, min(i*step + max_tokens, n)), and an empty token sequence gives
\* an empty list; stated of both chunkers.
C2_WindowFormula ==
    (cpc = "returned" /\ ValidChunkArgs) =>
        /\ \A i \in 1..Len(chunks) :
              /\ chunks[i].start = (i - 1) * (max_tokens - overlap)
              /\ chunks[i].end = Min((i - 1) * (max_tokens - overlap) + max_tokens,
                                     Len(ids))
        /\ (Len(ids) = 0 => chunks = <<>>)

\* C3: for n >= 1 and valid arguments the chunker stops right after the first
\* window whose end reaches n: the last emitted window ends at n and no
\* earlier one does.  Stated of both chunkers, here for token sequences
\* without special tokens (so that no window is dropped for its text).
C3_StopsAtFirstEnd ==
    (cpc = "returned" /\ ValidChunkArgs /\ Len(ids) >= 1 /\ NoSpecialTokens) =>
        /\ Len(chunks) >= 1
        /\ chunks[Len(chunks)].end = Len(ids)
        /\ \A i \in 1..(Len(chunks) - 1) : chunks[i].end < Len(ids)

\* C18: for n >= 1 tokens and valid arguments the windows a chunker produces
\* cover the token sequence without gaps: every position of [0, n) lies in a
\* window, the starts increase strictly, every window is non-empty and none
\* reaches past n.  Stated of both chunkers.
C18_WindowsCover ==
    (cpc = "returned" /\ ValidChunkArgs /\ Len(ids) >= 1) =>
        /\ \A q \in 0..(Len(ids) - 1) :
              \E i \in 1..Len(chunks) : chunks[i].start <= q /\ q < chunks[i].end
        /\ \A i \in 1..(Len(chunks) - 1) : chunks[i].start < chunks[i + 1].start
        /\ \A i \in 1..Len(chunks) :
              chunks[i].start < chunks[i].end /\ chunks[i].end <= Len(ids)

\* The stride the loop of the chunker runs with.
StrideUsed ==
    IF cfn = "chunk_by_tokens" THEN ByStep(max_tokens, overlap)
    ELSE max_tokens - overlap

\* C19: for every max_tokens > 0 and every overlap >= 0, also one that is not
\* below max_tokens, the loop runs with a stride of at least 1 and so ends
\* after at most n iterations (the starts of the windows increase strictly
\* and there are at most n of them).  chunk_text_by_tokens rejects an overlap
\* that is not below max_tokens by its assertion, before iterating;
\* chunk_by_tokens falls back to a stride of max_tokens and raises nothing.
C19_StrideAtLeastOne ==
    /\ cfn = "chunk_text_by_tokens" =>
          /\ cpc = "raised" => (overlap >= max_tokens /\ chunks = <<>>)
          /\ cpc = "returned" => overlap < max_tokens
    /\ cfn = "chunk_by_tokens" =>
          /\ cpc # "raised"
          /\ (cpc = "returned" /\ overlap >= max_tokens) =>
                 \A i \in 1..Len(chunks) :
                     \E m \in 0..Len(ids) : chunks[i].start = m * max_tokens
    /\ cpc = "returned" =>
          /\ StrideUsed >= 1
          /\ Len(chunks) <= Len(ids)
          /\ \A i \in 1..(Len(chunks) - 1) :
                 chunks[i + 1].start - chunks[i].start >= StrideUsed

C19_Witness ==
    /\ cfn = "chunk_by_tokens"
    /\ cpc = "returned"
    /\ overlap > max_tokens
    /\ max_tokens = 2
    /\ Len(ids) = 5
    /\ Len(chunks) = 3


(***************************************************************************)
(* Claims about the queries (checked under SpecQuery).                     *)
(***************************************************************************)
\* The candidate rows of the call, from its arguments and the store.
FilterResolved ==
    h5_exists /\ ~BoundsMissing(CandidateBounds(works_idx, work_filter, Len(sim)))

CandidateCount ==
    IF qfn = "query_hdf5"
    THEN LET b == CandidateBounds(works_idx, work_filter, Len(sim)) IN b[2] - b[1]
    ELSE Len(sim)

CandidateLo == CandidateBounds(works_idx, work_filter, Len(sim))[1]

\* Candidate i (local, 0-based) comes before candidate j in a full sort by
\* descending score, equal scores in row order.
Before(i, j) ==
    \/ At(sim, CandidateLo + i) > At(sim, CandidateLo + j)
    \/ At(sim, CandidateLo + i) = At(sim, CandidateLo + j) /\ i < j

\* The position (0-based) of candidate i in that full sort.
FullSortPos(i) == Cardinality({j \in 0..(CandidateCount - 1) : Before(j, i)})

\* C1: with N >= 1 candidates and K = min(top_k, N), query_hdf5 returns the
\* rows a full sort of all candidate scores puts in its first K places, in
\* that order, and every candidate was scored exactly once by the scan.
C1_MatchesFullSort ==
    (qfn = "query_hdf5" /\ qpc = "done" /\ CandidateCount >= 1) =>
        /\ Len(results) = Min(top_k, CandidateCount)
        /\ \A j \in 1..Len(results) :
              FullSortPos(results[j].row - CandidateLo) = j - 1
        /\ \A j \in 1..Len(nscored) : nscored[j] = 1

\* C9: with c >= 1 candidates and k >= 1 the query raises nothing and returns
\* exactly min(k, c) results (ranked 1..min(k, c) by query_hdf5); stated of
\* query_hdf5 and of topk_cosine_from_hdf5.
C9_MinKResults ==
    (h5_exists /\ (qfn = "query_hdf5" => FilterResolved) /\ CandidateCount >= 1) =>
        /\ qpc # "raised"
        /\ qpc = "done" =>
              /\ Len(results) = Min(top_k, CandidateCount)
              /\ qfn = "query_hdf5" =>
                    \A j \in 1..Len(results) : results[j].rank = j

\* C10: with an empty candidate set (an empty filtered range, or a store of
\* no rows) query_hdf5 raises nothing and returns the empty list.
C10_EmptyCandidates ==
    (qfn = "query_hdf5" /\ FilterResolved /\ CandidateCount = 0) =>
        /\ qpc # "raised"
        /\ qpc = "done" => results = <<>>

C10_Witness ==
    /\ qfn = "query_hdf5"
    /\ FilterResolved
    /\ CandidateCount = 0
    /\ work_filter # <<>>
    /\ Len(sim) > 0
    /\ qpc = "done"
    /\ results = <<>>

\* C11: among equal scores query_hdf5 prefers the lower row index, both in
\* which rows make the top K and in the order they are returned: results of
\* equal score are in ascending row order, and no candidate left out has the
\* score of a returned row and a lower row index than it.
C11_TiesByLowerRow ==
    (qfn = "query_hdf5" /\ qpc = "done") =>
        /\ \A a, b \in 1..Len(results) :
              (a < b /\ results[a].score = results[b].score)
                  => results[a].row < results[b].row
        /\ \A a \in 1..Len(results) : \A j \in 1..Len(rows) :
              (rows[j] < results[a].row /\ At(sim, rows[j]) = results[a].score)
                  => \E b \in 1..Len(results) : results[b].row = rows[j]

\* C12: every row query_hdf5 returns lies in the range the work filter
\* resolved to, [start_row, end_row), whatever k and the scores are; without
\* a filter every returned row lies in [0, N).
C12_RowsInRange ==
    (qfn = "query_hdf5" /\ qpc = "done") =>
        \A a \in 1..Len(results) :
            IF work_filter # <<>>
            THEN LET b == FindWorkRows(works_idx, work_filter)
                 IN  b[1] <= results[a].row /\ results[a].row < b[2]
            ELSE 0 <= results[a].row /\ results[a].row < Len(sim)

C12_Witness ==
    /\ qfn = "query_hdf5"
    /\ qpc = "done"
    /\ work_filter = <<"A", "C">>
    /\ works_idx[2].start_row = 1
    /\ Len(sim) = 3
    /\ top_k > 2
    /\ Len(results) = 2
    /\ At(sim, 0) > At(sim, 1)

\* A title contains the filter, letter case ignored.
ContainsIgnoringCase(title, filter) ==
    \E off \in 0..(Len(title) - Len(filter)) :
        \A j \in 1..Len(filter) : LowerChar(title[off + j]) = LowerChar(filter[j])

MatchingEntries ==
    {j \in 1..Len(works_idx) : ContainsIgnoringCase(works_idx[j].title, work_filter)}

\* C13: with a title filter, the candidates of query_hdf5 are the rows of the
\* first index entry, in index order, whose title contains the filter with
\* letter case ignored; when no entry does, the call raises ValueError before
\* any row is scored and returns nothing.
C13_FirstMatchingEntry ==
    (qfn = "query_hdf5" /\ h5_exists /\ work_filter # <<>> /\ qpc # "call") =>
        IF MatchingEntries = {}
        THEN /\ qpc = "raised"
             /\ qerr = "ValueError"
             /\ scores = <<>>
             /\ nscored = <<>>
             /\ results = <<>>
        ELSE LET e == works_idx[CHOOSE j \in MatchingEntries :
                                   \A l \in MatchingEntries : j <= l]
             IN  /\ qpc # "raised"
                 /\ rows = Arange(e.start_row, e.end_row)

C13_Witness ==
    /\ qfn = "query_hdf5"
    /\ qpc = "done"
    /\ work_filter = <<"m">>
    /\ Cardinality(MatchingEntries) = 2
    /\ works_idx[1].end_row = 1
    /\ Len(sim) = 3
    /\ [j \in 1..Len(results) |-> results[j].row] = <<0>>


(***************************************************************************)
(* Claims about the build (checked under SpecBuild).                       *)
(***************************************************************************)
Covers(e, r) == e.start_row <= r /\ r < e.end_row

\* index is sorted by start_row, pairwise non-overlapping, without empty
\* ranges, and covers every row of [0, n) exactly once (and no other row).
WellFormedIndex(index, n) ==
    /\ \A j \in 1..Len(index) :
          /\ index[j].end_row > index[j].start_row
          /\ 0 <= index[j].start_row
          /\ index[j].end_row <= n
    /\ \A j \in 1..(Len(index) - 1) : index[j].start_row < index[j + 1].start_row
    /\ \A j, l \in 1..Len(index) :
          j # l => \/ index[j].end_row <= index[l].start_row
                   \/ index[l].end_row <= index[j].start_row
    /\ \A r \in 0..(n - 1) :
          Cardinality({j \in 1..Len(index) : Covers(index[j], r)}) = 1

\* C4: whatever works build_if_missing has processed, the works index is
\* sorted by start_row, non-overlapping, free of empty ranges, and covers each
\* row of [0, row_cursor) exactly once; so is the index of a written store.
C4_IndexInvariant ==
    /\ WellFormedIndex(works_index, row_cursor)
    /\ "works/index" \in file.parts => WellFormedIndex(file.index, Len(file.work_id))

C4_Witness ==
    /\ Complete(file)
    /\ Len(file.index) >= 2
    /\ Len(works) > Len(file.index)
    /\ work_id = Len(works)

\* every row's work id names exactly one entry of the index, and that entry
\* covers the row
RowsOwned(wids, index) ==
    \A r \in 0..(Len(wids) - 1) :
        LET owners == {j \in 1..Len(index) : index[j].work_id = At(wids, r)} IN
        /\ Cardinality(owners) = 1
        /\ \A j \in owners : Covers(index[j], r)

\* C5: in every store build_if_missing writes, and after every iteration of
\* its loop, the work id of each row is the work_id of exactly one index
\* entry, whose [start_row, end_row) holds the row.
C5_RowsCovered ==
    /\ RowsOwned(all_work_ids, works_index)
    /\ Complete(file) => RowsOwned(file.work_id, file.index)

C5_Witness ==
    /\ Complete(file)
    /\ Len(file.index) >= 2
    /\ Len(file.work_id) >= 3

\* C6: at every instant the path is absent or holds a complete store, and a
\* reader opening it never finds anything else.
C6_NoPartialStore ==
    /\ file.exists => Complete(file)
    /\ obs \in {"none", "absent", "complete"}

\* C7: after a build has failed the path is absent or still holds the
\* complete store that was there when the build started.
C7_FailureLeavesNoPartial ==
    pc = "raised" => \/ ~file.exists
                     \/ Complete(file) /\ file = file_at_entry

\* C8: a build without rebuild that finds the file returns at once and leaves
\* the file as it is; while builds are not forced a complete store never
\* changes.
C8_SkipIsNoOp ==
    [][ /\ (pc = "entry" /\ file.exists /\ ~rebuild) =>
              (file' = file /\ pc' \in {"entry", "returned"})
        /\ (Complete(file) /\ ~rebuild /\ ~rebuild') => file' = file ]_vars

C8_Witness ==
    /\ pc = "returned"
    /\ ~rebuild
    /\ builds >= 2
    /\ Complete(file)
    /\ file = file_at_entry

\* C15: a build called with rebuild = true runs the whole pipeline even when
\* the file exists, and when it returns the path holds the store this build
\* wrote, complete, with the created_at of this build.
C15_RebuildReplaces ==
    (pc = "returned" /\ rebuild) =>
        /\ Complete(file)
        /\ file.created_at = now
        /\ file.work_id = all_work_ids
        /\ file.index = works_index

C15_Witness ==
    /\ pc = "returned"
    /\ rebuild
    /\ Complete(file_at_entry)
    /\ file_at_entry.created_at < now
    /\ Complete(file)
    /\ file.created_at = now


(***************************************************************************)
(* Claims about the entry points that write a store (checked under         *)
(* SpecPrograms).                                                          *)
(***************************************************************************)
\* The pipeline that is run produces no row for the whole corpus.
ZeroRowCorpus ==
    \/ prog = "build_if_missing" /\ \A j \in 1..Len(works) : works[j] = 0
    \/ prog = "main" /\ Len(ids) = 0

\* C14: when the pipeline produces zero rows for the whole corpus the build
\* ends with an error and writes nothing: no file is created, and a file
\* that was at the path stays as it was.  Stated of build_if_missing (which
\* returns without an error only when it skips the pipeline) and of main.
C14_EmptyCorpusWritesNothing ==
    ZeroRowCorpus =>
        /\ file = file_at_entry
        /\ mpc \notin {"persist", "datasets", "close", "returned"}
        /\ pc \in {"idle", "entry", "download", "chunk", "raised", "returned", "off"}
        /\ pc = "returned" => (file_at_entry.exists /\ ~rebuild)

C14_Witness ==
    /\ prog = "build_if_missing"
    /\ ZeroRowCorpus
    /\ Len(works) >= 2
    /\ rebuild
    /\ work_id = Len(works)
    /\ pc = "raised"
    /\ file = PriorStore

\* C17: all per-row columns of a store that is written have the same length:
\* after every iteration of the chunking loop of build_if_missing
\* len(all_chunks) = len(all_work_ids) = row_cursor; write_hdf5 has the file
\* open only with as many embedding rows as chunk texts and work ids, and
\* called with other lengths it raises and leaves the path as it was; the
\* per-row datasets at the path, also those main wrote, have one length.
C17_ColumnsSameLength ==
    /\ prog = "build_if_missing" =>
          (Len(all_chunks) = Len(all_work_ids) /\ Len(all_work_ids) = row_cursor)
    /\ prog \in {"build_if_missing", "write_hdf5"} =>
          IF Len(all_chunks) = Len(embeddings) /\ Len(embeddings) = Len(all_work_ids)
          THEN TRUE
          ELSE /\ pc \in {"idle", "entry", "download", "chunk", "write", "raised"}
               /\ ~file.open
               /\ prog = "write_hdf5" => file = file_at_entry
    /\ \A d, e \in DOMAIN file.rows : file.rows[d] = file.rows[e]

C17_Witness ==
    /\ prog = "write_hdf5"
    /\ pc = "raised"
    /\ Len(all_chunks) = Len(all_work_ids)
    /\ Len(embeddings) < Len(all_chunks)
    /\ file = PriorStore


(***************************************************************************)
(* Claims about the downloads (checked under SpecDownload).                *)
(***************************************************************************)
\* The candidates (0-based positions) whose response the function accepts.
AcceptablePositions ==
    {k \in 0..(Len(responses) - 1) : Acceptable(dfn, At(responses, k))}

\* C16: the candidate URLs are requested in listed order; the function
\* returns the text of the first candidate that responds acceptably, and
\* raises only after every candidate was requested and none did (each raised
\* or gave an unacceptable response); a candidate that fails never keeps a
\* later one from being requested.  Stated of both download functions.
C16_FirstAcceptableCandidate ==
    /\ tried = [j \in 1..Len(tried) |-> j - 1]
    /\ \A j \in 1..(Len(tried) - 1) : tried[j] \notin AcceptablePositions
    /\ dpc = "returned" =>
          /\ AcceptablePositions # {}
          /\ LET first == CHOOSE k \in AcceptablePositions :
                              \A l \in AcceptablePositions : k <= l
             IN  /\ dresult.text.from = first
                 /\ dresult.url = At(UrlsOf(dfn), first)
                 /\ Len(tried) = first + 1
    /\ dpc = "raised" =>
          /\ AcceptablePositions = {}
          /\ Len(tried) = Len(UrlsOf(dfn))
    /\ (dpc = "loop" /\ Len(tried) > 0) =>
          tried[Len(tried)] \notin AcceptablePositions

C16_Witness ==
    /\ dfn = "download_gutenberg_text"
    /\ dpc = "returned"
    /\ responses[1] = "exception"
    /\ responses[2] = "not_ok"
    /\ responses[3] = "empty"
    /\ responses[4] = "short"
    /\ responses[5] = "exception"
    /\ dresult.url = CandidateGutenbergUrls[4]
    /\ last_err = <<"error", 0>>


(***************************************************************************)
(* Claims about gala_loader (checked under SpecGala).                      *)
(***************************************************************************)
\* C20: process_citations adds statements only to items create_or_find_item
\* reported as newly created: for an item found to exist no addClaim is
\* issued; a row whose locale is not 'en' or whose title has fewer than 5
\* characters causes no item lookup and no item creation; and an exception
\* while one row is processed does not keep the remaining rows from being
\* processed.
C20_StatementsOnlyForNewItems ==
    /\ \A r \in 1..Len(report) :
          /\ report[r].addClaim > 0 => report[r].created
          /\ report[r].found => (report[r].addClaim = 0 /\ ~report[r].created)
          /\ (citations[r].locale # "en" \/ Len(Strip(citations[r].title)) < 5) =>
                 (~report[r].lookup /\ ~report[r].created /\ report[r].addClaim = 0)
    /\ gpc = "done" =>
          /\ Len(report) = Len(citations)
          /\ \A r \in 1..Len(citations) :
                 (citations[r].locale = "en" /\ Len(Strip(citations[r].title)) >= 5)
                     => report[r].lookup

C20_Witness ==
    /\ gpc = "done"
    /\ Len(citations) = 2
    /\ report[1].error
    /\ report[1].created
    /\ report[1].addClaim = 3
    /\ report[2].found
    /\ ~report[2].error

====
